---- MODULE Spec2Model ----
(***************************************************************************)
(* A model of src/whisper_bridge.py: the download coordinator              *)
(* (download_model), its progress monitor thread                           *)
(* (monitor_download_progress), the size oracle (get_expected_model_size)  *)
(* and the in-process model cache (load_model).                            *)
(*                                                                         *)
(* Units.  Byte counts are kept in MiB (2^20 bytes), so the fallback table *)
(* reads 39, 74, ... as in the source's "39 * 1024 * 1024".  Time is kept  *)
(* in ticks of half a second, the monitor's polling sleep.  Percentages    *)
(* are exact fractions: a percentage p of an invocation whose expected     *)
(* size is E is stored as the integer p * Den(E).                          *)
(***************************************************************************)
EXTENDS Integers, Sequences, FiniteSets, TLC

\* ------------------------------------------------------------------ bounds

\* download_model() invocations made in one behaviour
MaxCalls == 2
\* load_model() calls that reach whisper.load_model in one behaviour
MaxLoads == 4
\* passes of the monitor's loop body that raise, per monitor
MaxStatErrors == 1
\* a sleep that overruns because the process was stopped: more than 10 s
LongPause == 21
\* a lower bound, in seconds, of what time.time() returns (seconds since 1970)
WallClockSeconds == 1000
\* check_model_status() and delete_model() calls whose results are kept
OpsKept == 3

\* -------------------------------------------------------- program constants

\* time.sleep(0.5): one polling interval is one tick
PollTicks == 1
\* "current_time - last_update_time > 10": 10 s is 20 ticks
StagnationTicks == 20
\* "len(_model_cache) >= 2"
CacheLimit == 2
\* approximate_sizes.get(model_name, 100 * 1024 * 1024)
DefaultSize == 100

\* if len(speed_samples) > 10
WindowLimit == 10
\* "current_time - last_progress_update > 0.5": 0.5 s is one tick
EmitTicks == 1

Models == {"tiny", "base", "small", "medium", "large", "turbo"}

approximate_sizes ==
  [m \in Models |->
     CASE m = "tiny" -> 39
       [] m = "base" -> 74
       [] m = "small" -> 244
       [] m = "medium" -> 769
       [] m = "large" -> 1550
       [] m = "turbo" -> 809]

Min(a, b) == IF a < b THEN a ELSE b

Abs(a) == IF a < 0 THEN 0 - a ELSE a

\* ------------------------------------------------------------- size oracle

\* The content-length header values the probe may carry, with int() of each:
\* "abc" makes int() raise ValueError.
HeaderValues == {"", "0", "100", "abc"}

IsDecimal(s) == s \in {"0", "100"}

IntOf(s) == IF s = "100" THEN 100 ELSE 0

\* What requests.head() may do: raise (timeout, network error), or answer with
\* a status code and, perhaps, a content-length header.
ProbeOutcomes ==
  {[raises |-> TRUE, status |-> 0, has_header |-> FALSE, content_length |-> ""]}
    \cup
  {[raises |-> FALSE, status |-> s, has_header |-> FALSE, content_length |-> ""] :
     s \in {200, 404}}
    \cup
  {[raises |-> FALSE, status |-> s, has_header |-> TRUE, content_length |-> h] :
     s \in {200, 404}, h \in HeaderValues}

\* get_expected_model_size(model_name), given what the probe does
get_expected_model_size(model_name, probe) ==
  IF /\ model_name \in Models
     /\ ~probe.raises
     /\ probe.status = 200
     /\ probe.has_header
     /\ probe.content_length # ""
     /\ IsDecimal(probe.content_length)
  THEN IntOf(probe.content_length)
  ELSE IF model_name \in Models THEN approximate_sizes[model_name]
       ELSE DefaultSize

\* ---------------------------------------------------------------- variables

VARIABLES
  model_name,     \* the model every call of the behaviour is about
  file_exists,    \* os.path.exists(model_file)
  file_size,      \* os.path.getsize(model_file)
  pc,             \* where the primary thread is
  cur,            \* the download_model() invocation in progress (or the last)
  calls,          \* download_model() invocations made so far
  expected_size,  \* download_model's expected_size
  probed,         \* this invocation called get_expected_model_size
  fetch,          \* this invocation's whisper.load_model: none, running, ...
  fetch_calls,    \* times this invocation called whisper.load_model
  raised,         \* the exception this invocation's fetch raised
  joined,         \* this invocation is past the join of lines 265-266
  after_failure,  \* this invocation returned at once, and the one before it
                  \* had returned a failure
  ops,            \* what the last check_model_status() and delete_model()
                  \* calls returned, oldest first
  result,         \* the dict this invocation returned
  stop_event,     \* this invocation's stop_event.is_set()
  completes,      \* "complete" lines this invocation printed
  mon,            \* this invocation's monitor thread: its argument and locals
  stat_errors,    \* passes of the monitor's body that raised
  stagnant,       \* for how long the size the monitor observes has been the
                  \* same one, above 90% and below 95%
  tick,           \* what the last step did, when it was a pass of a monitor's body
  stderr,         \* the PROGRESS line the last step printed, if any
  model_cache,    \* _model_cache: its keys and handles, in insertion order
  loads,          \* whisper.load_model calls made by load_model
  load_result,    \* what the last load_model call returned
  load_raised,    \* whisper.load_model raised in the last load_model call
  evicted         \* the key the last load_model call deleted, if any

cachevars == <<model_cache, loads, load_result, load_raised, evicted>>

filevars == <<file_exists, file_size>>

\* the locals of one download_model() invocation
callvars == <<expected_size, probed, fetch, fetch_calls, raised, joined>>

NoLine ==
  [type |-> "none", downloaded_bytes |-> 0, total_bytes |-> 0, percentage |-> 0]

\* speeds are fractions, in Mbps
ZeroSpeed == [num |-> 0, den |-> 1]

\* What a pass of the monitor's body saw and did: the size it read, whether
\* that is more than the size the pass before it read, whether it appended a
\* sample, the window it went on with, its speed_mbps, for how long it has
\* seen the size unchanged between 90% and 95%, whether a line was printed
\* before, whether the polling interval has passed since, whether the
\* percentage is more than one point away from the one printed then, whether
\* some pass so far saw the size grow, and whether it left the loop.
NoTick ==
  [passed |-> FALSE, current_size |-> 0, increased |-> FALSE,
   appended |-> FALSE, speed_samples |-> <<>>, speed_mbps |-> ZeroSpeed,
   stagnant |-> 0, emitted |-> FALSE, waited |-> FALSE, moved |-> FALSE,
   grown |-> FALSE, left |-> FALSE]

NoResult ==
  [returned |-> FALSE, downloaded |-> FALSE, success |-> FALSE,
   size_bytes |-> 0, error |-> ""]

\* "> 10 s" does not tell apart the times above this one: elapsed times saturate
TimeCap == StagnationTicks + 1

\* a loop whose sleep may take no time at all
SleepTicksFromZero == {0, PollTicks, LongPause}

\* how long a time.sleep(0.5) may take
SleepTicks == {PollTicks, LongPause}

\* the error string of the except KeyboardInterrupt clause
InterruptedError == "Download interrupted by user"

\* what the fetch may raise: str(e) is the message
Exceptions ==
  {[kind |-> "KeyboardInterrupt", message |-> ""]}
    \cup
  {[kind |-> "Exception", message |-> m] :
     m \in {"", "SHA256 checksum does not match"}}

NoException == [kind |-> "none", message |-> ""]

\* ------------------------------------------------------- monitor arithmetic

\* percentages of an invocation are fractions over this denominator
Den(E) == IF E > 0 THEN E ELSE 1

\* the percentage without its cap at 100
PercentageUnclamped(current_size, E) ==
  IF E > 0 THEN current_size * 100 ELSE 0

\* min((current_size / expected_size * 100) if expected_size > 0 else 0, 100),
\* times Den(E)
Percentage(current_size, E) ==
  IF E > 0 THEN Min(current_size * 100, 100 * E) ELSE 0

\* round(percentage, 1), in tenths of a percent
Round1(pct, E) == (20 * pct + Den(E)) \div (2 * Den(E))

\* current_time - last_progress_update > 0.5 or
\* abs(percentage - last_progress_update) > 1.0
\* (current_time is time.time(), in seconds; last_progress_update holds the
\* percentage of the last emission)
ShouldEmit(pct, lpu, E) ==
  \/ 2 * (WallClockSeconds * Den(E) - lpu) > Den(E)
  \/ Abs(pct - lpu) > Den(E)

\* the completion test as an equality test against the estimate
AtLeast100(current_size, E) == current_size >= E

\* current_size >= expected_size * 0.95
AtLeast95(current_size, E) == 100 * current_size >= 95 * E

\* the stagnation exit open from half of the estimate on
AboveHalf(current_size, E) == 2 * current_size > E

\* current_size > expected_size * 0.9
Above90(current_size, E) == 10 * current_size > 9 * E

\* current_size == last_size and current_time - last_update_time > 10
Stagnated(current_size, last, time_diff) ==
  current_size = last /\ time_diff > StagnationTicks

\* The sizes the fetch may leave the artifact at while it writes it: empty, at
\* 90% of the estimate or just below, between 90% and 95%, at 95% or just
\* above, and beyond the estimate.
FileSizes(E) ==
  {0, (9 * E) \div 10, (92 * E + 99) \div 100, (95 * E + 99) \div 100,
   E + (E \div 10) + 1}

\* sum(speed_samples), as a fraction: its denominator ...
RECURSIVE DenProduct(_)
DenProduct(samples) ==
  IF samples = <<>> THEN 1
  ELSE Head(samples).den * DenProduct(Tail(samples))

\* ... and its numerator
RECURSIVE NumSum(_)
NumSum(samples) ==
  IF samples = <<>> THEN 0
  ELSE Head(samples).num * DenProduct(Tail(samples))
         + Head(samples).den * NumSum(Tail(samples))

\* sum(speed_samples) / len(speed_samples)
Mean(samples) ==
  [num |-> NumSum(samples), den |-> DenProduct(samples) * Len(samples)]

\* last_size > 0 and time_diff > 0 and current_size > last_size
Grew(current_size, last, time_diff) ==
  last > 0 /\ time_diff > 0 /\ current_size > last

\* a throughput with the operands of the subtraction exchanged
ThroughputReversed(current_size, last, time_diff) ==
  [num |-> 16 * (last - current_size), den |-> time_diff]

\* (current_size - last_size) / time_diff * 8 / (1024 * 1024): sizes are in
\* MiB and time_diff in half seconds, so this is 16 * MiB / ticks
Throughput(current_size, last, time_diff) ==
  [num |-> 16 * (current_size - last), den |-> time_diff]

\* speed_samples.append(speed_mbps); if len(speed_samples) > 10: pop(0)
Window(samples, sample) ==
  LET longer == Append(samples, sample) IN
    IF Len(longer) > WindowLimit THEN Tail(longer) ELSE longer

\* round(speed_mbps, 2), in hundredths of a Mbps
Round2(speed) == (200 * speed.num + speed.den) \div (2 * speed.den)

\* round(speed_mbps, 2) if speed_mbps > 0 else 0
SpeedField(speed) == IF speed.num > 0 THEN Round2(speed) ELSE 0

ProgressLine(current_size, E, pct, speed) ==
  [type |-> "progress", downloaded_bytes |-> current_size, total_bytes |-> E,
   percentage |-> Round1(pct, E), speed_mbps |-> SpeedField(speed)]

\* a "complete" line that carries the percentage reached, not 100
CompleteLineReached(final_size, E) ==
  [type |-> "complete", downloaded_bytes |-> final_size, total_bytes |-> E,
   percentage |-> Round1(Percentage(final_size, E), E)]

CompleteLine(final_size, E) ==
  [type |-> "complete", downloaded_bytes |-> final_size, total_bytes |-> E,
   percentage |-> 1000]

\* A monitor thread: where it is, its expected_size argument and its locals.
\* since_update is time.time() - last_update_time.  emitted, since_emit and
\* grown are no locals of the code: whether the thread has printed a line, the
\* time since it printed the last one, and whether some pass saw the size
\* grow.  A thread that has not started or has returned has no locals.
NoMonitor(at) ==
  [pc |-> at, expected_size |-> 0, last_size |-> 0, since_update |-> 0,
   last_progress_update |-> 0, speed_samples |-> <<>>, emitted |-> FALSE,
   since_emit |-> 0, grown |-> FALSE]

\* monitor_download_progress(model_name, expected_size, stop_event), up to its
\* loop
NewMonitor(E) ==
  [pc |-> "test", expected_size |-> E, last_size |-> 0, since_update |-> 0,
   last_progress_update |-> 0, speed_samples |-> <<>>, emitted |-> FALSE,
   since_emit |-> 0, grown |-> FALSE]

Alive == mon.pc \in {"test", "body", "sleep"}

\* --------------------------------------------------------------- the state

DownloadInit ==
  /\ model_name \in Models
  /\ file_exists \in BOOLEAN
  /\ file_size = (IF file_exists THEN approximate_sizes[model_name] ELSE 0)
  /\ pc = "idle"
  /\ cur = 0
  /\ calls = 0
  /\ expected_size = 0
  /\ probed = FALSE
  /\ fetch = "none"
  /\ fetch_calls = 0
  /\ raised = NoException
  /\ joined = FALSE
  /\ after_failure = FALSE
  /\ ops = <<>>
  /\ result = NoResult
  /\ stop_event = FALSE
  /\ completes = 0
  /\ mon = NoMonitor("unstarted")
  /\ stat_errors = 0
  /\ stagnant = 0
  /\ tick = NoTick
  /\ stderr = NoLine

CacheInit ==
  /\ model_cache = <<>>
  /\ loads = 0
  /\ load_result = [model |-> "", handle |-> 0]
  /\ load_raised = FALSE
  /\ evicted = ""

Init == DownloadInit /\ CacheInit

monvars == <<mon, stat_errors, stagnant>>

dlvars == <<model_name, filevars, pc, cur, calls, after_failure, ops, callvars,
            result, stop_event, completes, monvars, tick, stderr>>

vars == <<dlvars, cachevars>>

\* the step prints nothing and is no pass of the monitor's body
Quiet == tick' = NoTick /\ stderr' = NoLine

\* ---------------------------------------------------------- download_model

\* the dict download_model returns when the artifact is (now) on disk
Downloaded(size) ==
  [returned |-> TRUE, downloaded |-> TRUE, success |-> TRUE,
   size_bytes |-> size, error |-> ""]

\* the dict download_model returns from an except clause
Failed(error) ==
  [returned |-> TRUE, downloaded |-> FALSE, success |-> FALSE,
   size_bytes |-> 0, error |-> error]

\* A new invocation, with its own stop_event, thread and locals.  main() makes
\* one call per process; a caller that makes several makes the next one once
\* the monitor of the previous one has ended.
Enter ==
  /\ pc = "idle"
  /\ calls < MaxCalls
  /\ ~Alive
  /\ cur' = calls + 1
  /\ calls' = calls + 1
  /\ expected_size' = 0
  /\ probed' = FALSE
  /\ fetch' = "none"
  /\ fetch_calls' = 0
  /\ raised' = NoException
  /\ joined' = FALSE
  /\ stop_event' = FALSE
  /\ completes' = 0
  /\ mon' = NoMonitor("unstarted")
  /\ stat_errors' = 0
  /\ stagnant' = 0

\* download_model(): the artifact is on disk, return at once
DownloadShortCircuit ==
  /\ Enter
  /\ file_exists
  /\ result' = Downloaded(file_size)
  /\ after_failure' = (result.returned /\ ~result.success)
  /\ Quiet
  /\ UNCHANGED <<model_name, filevars, pc, ops, cachevars>>

\* download_model() without its existence check
DownloadBeginUnchecked ==
  /\ Enter
  /\ result' = NoResult
  /\ after_failure' = FALSE
  /\ pc' = "probe"
  /\ Quiet
  /\ UNCHANGED <<model_name, filevars, ops, cachevars>>

\* download_model() that downloads again after a call that failed
DownloadBeginAfterFailure ==
  /\ Enter
  /\ ~file_exists \/ (result.returned /\ ~result.success)
  /\ result' = NoResult
  /\ after_failure' = FALSE
  /\ pc' = "probe"
  /\ Quiet
  /\ UNCHANGED <<model_name, filevars, ops, cachevars>>

\* download_model(): the artifact is not on disk
DownloadBegin ==
  /\ Enter
  /\ ~file_exists
  /\ result' = NoResult
  /\ after_failure' = FALSE
  /\ pc' = "probe"
  /\ Quiet
  /\ UNCHANGED <<model_name, filevars, ops, cachevars>>

\* expected_size = get_expected_model_size(model_name)
ProbeSize ==
  /\ pc = "probe"
  /\ \E probe \in ProbeOutcomes :
       expected_size' = get_expected_model_size(model_name, probe)
  /\ probed' = TRUE
  /\ pc' = "start"
  /\ Quiet
  /\ UNCHANGED <<model_name, filevars, cur, calls, after_failure, ops, fetch,
                 fetch_calls, raised, joined, result, stop_event, completes,
                 monvars, cachevars>>

\* download_model() that goes on to the fetch without starting the thread
StartMonitorSkipped ==
  /\ pc = "start"
  /\ pc' = "call"
  /\ Quiet
  /\ UNCHANGED <<model_name, filevars, cur, calls, after_failure, ops, callvars,
                 result, stop_event, completes, monvars, cachevars>>

\* progress_thread.start()
StartMonitor ==
  /\ pc = "start"
  /\ mon' = NewMonitor(expected_size)
  /\ pc' = "call"
  /\ Quiet
  /\ UNCHANGED <<model_name, filevars, cur, calls, after_failure, ops, callvars,
                 result, stop_event, completes, stat_errors, stagnant,
                 cachevars>>

\* model = whisper.load_model(model_name): the call is made and blocks
InvokeFetch ==
  /\ pc = "call"
  /\ fetch' = "running"
  /\ fetch_calls' = fetch_calls + 1
  /\ pc' = "fetch"
  /\ Quiet
  /\ UNCHANGED <<model_name, filevars, cur, calls, after_failure, ops,
                 expected_size, probed, raised, joined, result, stop_event,
                 completes, monvars, cachevars>>

\* the fetch creates the artifact or appends to it
FetchWrites ==
  /\ pc = "fetch"
  /\ \E s \in FileSizes(expected_size) :
       /\ file_exists => s > file_size
       /\ file_size' = s
  /\ file_exists' = TRUE
  /\ Quiet
  /\ UNCHANGED <<model_name, pc, cur, calls, after_failure, ops, callvars,
                 result, stop_event, completes, monvars, cachevars>>

\* whisper.load_model returns
FetchReturns ==
  /\ pc = "fetch"
  /\ fetch' = "returned"
  /\ pc' = "set_stop"
  /\ Quiet
  /\ UNCHANGED <<model_name, filevars, cur, calls, after_failure, ops,
                 expected_size, probed, fetch_calls, raised, joined, result,
                 stop_event, completes, monvars, cachevars>>

\* whisper.load_model raises
FetchRaises ==
  /\ pc = "fetch"
  /\ \E e \in Exceptions : raised' = e
  /\ fetch' = "raised"
  /\ pc' = "except"
  /\ Quiet
  /\ UNCHANGED <<model_name, filevars, cur, calls, after_failure, ops,
                 expected_size, probed, fetch_calls, joined, result, stop_event,
                 completes, monvars, cachevars>>

\* stop_event.set(), after the fetch returned
SetStop ==
  /\ pc = "set_stop"
  /\ stop_event' = TRUE
  /\ pc' = "join"
  /\ Quiet
  /\ UNCHANGED <<model_name, filevars, cur, calls, after_failure, ops, callvars,
                 result, completes, monvars, cachevars>>

\* the monitor has ended: is_alive() is false, or join() returns
JoinReturns ==
  /\ pc = "join"
  /\ ~Alive
  /\ joined' = TRUE
  /\ pc' = "final"
  /\ Quiet
  /\ UNCHANGED <<model_name, filevars, cur, calls, after_failure, ops,
                 expected_size, probed, fetch, fetch_calls, raised, result,
                 stop_event, completes, monvars, cachevars>>

\* progress_thread.join(timeout=1) gives up on a monitor that is still alive
JoinTimesOut ==
  /\ pc = "join"
  /\ Alive
  /\ joined' = TRUE
  /\ pc' = "final"
  /\ Quiet
  /\ UNCHANGED <<model_name, filevars, cur, calls, after_failure, ops,
                 expected_size, probed, fetch, fetch_calls, raised, result,
                 stop_event, completes, monvars, cachevars>>

\* the final stat, the "complete" line and the return
Finish ==
  /\ pc = "final"
  /\ LET final_size == IF file_exists THEN file_size ELSE 0 IN
       /\ stderr' = CompleteLine(final_size, expected_size)
       /\ result' = Downloaded(final_size)
  /\ completes' = completes + 1
  /\ pc' = "idle"
  /\ tick' = NoTick
  /\ UNCHANGED <<model_name, filevars, cur, calls, after_failure, ops, callvars,
                 stop_event, monvars, cachevars>>

\* a KeyboardInterrupt caught by the generic clause
ExceptKeyboardInterruptAsException ==
  /\ pc = "except"
  /\ raised.kind = "KeyboardInterrupt"
  /\ stop_event' = TRUE
  /\ result' = Failed(raised.message)
  /\ pc' = "idle"
  /\ Quiet
  /\ UNCHANGED <<model_name, filevars, cur, calls, after_failure, ops, callvars,
                 completes, monvars, cachevars>>

\* except KeyboardInterrupt
ExceptKeyboardInterrupt ==
  /\ pc = "except"
  /\ raised.kind = "KeyboardInterrupt"
  /\ stop_event' = TRUE
  /\ result' = Failed(InterruptedError)
  /\ pc' = "idle"
  /\ Quiet
  /\ UNCHANGED <<model_name, filevars, cur, calls, after_failure, ops, callvars,
                 completes, monvars, cachevars>>

\* an except clause that returns without stop_event.set()
ExceptExceptionNoStop ==
  /\ pc = "except"
  /\ raised.kind = "Exception"
  /\ result' = Failed(raised.message)
  /\ pc' = "idle"
  /\ Quiet
  /\ UNCHANGED <<model_name, filevars, cur, calls, after_failure, ops, callvars,
                 stop_event, completes, monvars, cachevars>>

\* except Exception as e
ExceptException ==
  /\ pc = "except"
  /\ raised.kind = "Exception"
  /\ stop_event' = TRUE
  /\ result' = Failed(raised.message)
  /\ pc' = "idle"
  /\ Quiet
  /\ UNCHANGED <<model_name, filevars, cur, calls, after_failure, ops, callvars,
                 completes, monvars, cachevars>>

\* ------------------------------------------------ monitor_download_progress

\* while not stop_event.is_set()
MonitorTest ==
  /\ mon.pc = "test"
  /\ mon' = IF stop_event THEN NoMonitor("cancelled")
            ELSE [mon EXCEPT !.pc = "body"]
  /\ stagnant' = IF stop_event THEN 0 ELSE stagnant
  /\ Quiet
  /\ UNCHANGED <<model_name, filevars, pc, cur, calls, after_failure, ops,
                 callvars, result, stop_event, completes, stat_errors,
                 cachevars>>

\* One pass of the loop body that raises nothing: the stat, the speed, the
\* percentage, the PROGRESS line, the two ways out of the loop, and the new
\* last_size and last_update_time.
MonitorBody ==
  /\ mon.pc = "body"
  /\ LET E == mon.expected_size
         current_size == IF file_exists THEN file_size ELSE 0
         time_diff == mon.since_update
         grew == Grew(current_size, mon.last_size, time_diff)
         speed_samples ==
           IF grew
           THEN Window(mon.speed_samples,
                       Throughput(current_size, mon.last_size, time_diff))
           ELSE mon.speed_samples
         speed_mbps == IF grew THEN Mean(speed_samples) ELSE ZeroSpeed
         percentage == Percentage(current_size, E)
         emit == ShouldEmit(percentage, mon.last_progress_update, E)
         complete == AtLeast95(current_size, E)
         stalled == /\ Stagnated(current_size, mon.last_size, time_diff)
                    /\ Above90(current_size, E)
         still == /\ current_size = mon.last_size
                  /\ Above90(current_size, E)
                  /\ ~AtLeast95(current_size, E)
         grown == mon.grown \/ current_size > mon.last_size
     IN
       /\ stderr' = IF emit
                    THEN ProgressLine(current_size, E, percentage, speed_mbps)
                    ELSE NoLine
       /\ tick' = [passed |-> TRUE,
                   current_size |-> current_size,
                   increased |-> mon.emitted /\ current_size > mon.last_size,
                   appended |-> grew,
                   speed_samples |-> speed_samples,
                   speed_mbps |-> speed_mbps,
                   stagnant |->
                     IF still THEN Min(stagnant + time_diff, TimeCap) ELSE 0,
                   emitted |-> mon.emitted,
                   waited |-> mon.since_emit >= EmitTicks,
                   moved |->
                     Abs(percentage - mon.last_progress_update) > Den(E),
                   grown |-> grown,
                   left |-> complete \/ stalled]
       /\ IF complete
          THEN /\ mon' = NoMonitor("complete")
               /\ stagnant' = 0
          ELSE IF stalled
          THEN /\ mon' = NoMonitor("stalled_done")
               /\ stagnant' = 0
          ELSE /\ mon' = [pc |-> "sleep",
                          expected_size |-> E,
                          last_size |-> current_size,
                          since_update |-> 0,
                          last_progress_update |->
                            IF emit THEN percentage
                            ELSE mon.last_progress_update,
                          speed_samples |-> speed_samples,
                          emitted |-> mon.emitted \/ emit,
                          since_emit |-> IF emit THEN 0 ELSE mon.since_emit,
                          grown |-> grown]
               /\ stagnant' =
                    IF still THEN Min(stagnant + time_diff, TimeCap) ELSE 0
  /\ UNCHANGED <<model_name, filevars, pc, cur, calls, after_failure, ops,
                 callvars, result, stop_event, completes, stat_errors,
                 cachevars>>

\* A pass of the loop body in which the stat raises: "except Exception: pass"
MonitorBodyRaises ==
  /\ mon.pc = "body"
  /\ stat_errors < MaxStatErrors
  /\ stat_errors' = stat_errors + 1
  /\ mon' = [mon EXCEPT !.pc = "sleep"]
  /\ Quiet
  /\ UNCHANGED <<model_name, filevars, pc, cur, calls, after_failure, ops,
                 callvars, result, stop_event, completes, stagnant, cachevars>>

\* time.sleep(0.5)
MonitorSleep ==
  /\ mon.pc = "sleep"
  /\ \E d \in SleepTicks :
       mon' = [mon EXCEPT !.pc = "test",
                          !.since_update = Min(@ + d, TimeCap),
                          !.since_emit = Min(@ + d, TimeCap)]
  /\ Quiet
  /\ UNCHANGED <<model_name, filevars, pc, cur, calls, after_failure, ops,
                 callvars, result, stop_event, completes, stat_errors, stagnant,
                 cachevars>>

\* ------------------------------------- check_model_status and delete_model

\* the dict check_model_status(m) returns
StatusOf(m, exists, size) ==
  IF m \notin Models
  THEN [op |-> "status", downloaded |-> FALSE, deleted |-> FALSE,
        bytes |-> 0, success |-> FALSE, error |-> "KeyError"]
  ELSE IF exists
  THEN [op |-> "status", downloaded |-> TRUE, deleted |-> FALSE,
        bytes |-> size, success |-> TRUE, error |-> ""]
  ELSE [op |-> "status", downloaded |-> FALSE, deleted |-> FALSE,
        bytes |-> 0, success |-> TRUE, error |-> ""]

\* the dict delete_model(m) returns
DeletionOf(m, exists, size) ==
  IF m \notin Models
  THEN [op |-> "delete", downloaded |-> FALSE, deleted |-> FALSE,
        bytes |-> 0, success |-> FALSE, error |-> "KeyError"]
  ELSE IF exists
  THEN [op |-> "delete", downloaded |-> FALSE, deleted |-> TRUE,
        bytes |-> size, success |-> TRUE, error |-> ""]
  ELSE [op |-> "delete", downloaded |-> FALSE, deleted |-> FALSE,
        bytes |-> 0, success |-> FALSE, error |-> "Model not found"]

\* the results kept, with one more
Kept(results, r) ==
  LET longer == Append(results, r) IN
    IF Len(longer) > OpsKept THEN Tail(longer) ELSE longer

\* check_model_status(model_name)
check_model_status ==
  /\ pc = "idle"
  /\ ops' = Kept(ops, StatusOf(model_name, file_exists, file_size))
  /\ Quiet
  /\ UNCHANGED <<model_name, filevars, pc, cur, calls, after_failure, callvars,
                 result, stop_event, completes, monvars, cachevars>>

\* a delete_model that reports the deletion and leaves the file
delete_model_no_remove ==
  /\ pc = "idle"
  /\ ops' = Kept(ops, DeletionOf(model_name, file_exists, file_size))
  /\ Quiet
  /\ UNCHANGED <<model_name, filevars, pc, cur, calls, after_failure, callvars,
                 result, stop_event, completes, monvars, cachevars>>

\* delete_model(model_name)
delete_model ==
  /\ pc = "idle"
  /\ ops' = Kept(ops, DeletionOf(model_name, file_exists, file_size))
  /\ file_exists' = (file_exists /\ model_name \notin Models)
  /\ file_size' =
       (IF file_exists /\ model_name \in Models THEN 0 ELSE file_size)
  /\ Quiet
  /\ UNCHANGED <<model_name, pc, cur, calls, after_failure, callvars, result,
                 stop_event, completes, monvars, cachevars>>

\* --------------------------------------------------------------- load_model

\* model_name in _model_cache
Cached(cache, m) == \E k \in 1..Len(cache) : cache[k].name = m

\* _model_cache[model_name]
HandleOf(cache, m) ==
  LET k == CHOOSE k \in 1..Len(cache) : cache[k].name = m IN cache[k].handle

\* len(_model_cache) >= 2
CacheFull(cache) == Len(cache) >= CacheLimit

\* an eviction of the newest key
EvictNewest(cache) == SubSeq(cache, 1, Len(cache) - 1)

\* oldest_key = next(iter(_model_cache)); del _model_cache[oldest_key]
Evict(cache) == Tail(cache)

\* _model_cache[model_name] = model, for a key that is not in the dict
Insert(cache, m, handle) == Append(cache, [name |-> m, handle |-> handle])

\* load_model(m): the model is in the cache
LoadHit(m) ==
  /\ Cached(model_cache, m)
  /\ load_result' = [model |-> m, handle |-> HandleOf(model_cache, m)]
  /\ load_raised' = FALSE
  /\ evicted' = ""
  /\ UNCHANGED <<model_cache, loads, dlvars>>

\* load_model(m): the model is not in the cache and whisper.load_model
\* returns a model, the loads-th one of the process
LoadMiss(m) ==
  /\ ~Cached(model_cache, m)
  /\ loads < MaxLoads
  /\ loads' = loads + 1
  /\ LET kept == IF CacheFull(model_cache) THEN Evict(model_cache)
                 ELSE model_cache
     IN  /\ model_cache' = Insert(kept, m, loads + 1)
         /\ evicted' = IF CacheFull(model_cache) THEN model_cache[1].name ELSE ""
  /\ load_result' = [model |-> m, handle |-> loads + 1]
  /\ load_raised' = FALSE
  /\ UNCHANGED dlvars

\* a load_model that makes room in the cache before it tries the load
LoadFailsAfterEvict(m) ==
  /\ ~Cached(model_cache, m)
  /\ loads < MaxLoads
  /\ loads' = loads + 1
  /\ load_result' = [model |-> m, handle |-> 0]
  /\ load_raised' = TRUE
  /\ model_cache' = IF CacheFull(model_cache) THEN Evict(model_cache)
                    ELSE model_cache
  /\ evicted' = IF CacheFull(model_cache) THEN model_cache[1].name ELSE ""
  /\ UNCHANGED dlvars

\* load_model(m): the model is not in the cache and whisper.load_model raises
LoadFails(m) ==
  /\ ~Cached(model_cache, m)
  /\ loads < MaxLoads
  /\ loads' = loads + 1
  /\ load_result' = [model |-> m, handle |-> 0]
  /\ load_raised' = TRUE
  /\ evicted' = ""
  /\ UNCHANGED <<model_cache, dlvars>>

\* ------------------------------------------------------ the specifications

Next ==
  \/ DownloadShortCircuit
  \/ DownloadBegin
  \/ ProbeSize
  \/ StartMonitor
  \/ InvokeFetch
  \/ FetchWrites
  \/ FetchReturns
  \/ FetchRaises
  \/ SetStop
  \/ JoinReturns
  \/ JoinTimesOut
  \/ Finish
  \/ ExceptKeyboardInterrupt
  \/ ExceptException
  \/ MonitorTest
  \/ MonitorBody
  \/ MonitorBodyRaises
  \/ MonitorSleep

Spec == Init /\ [][Next]_vars

CacheNext ==
  \E m \in Models :
    \/ LoadHit(m)
    \/ LoadMiss(m)
    \/ LoadFails(m)

CacheSpec == Init /\ [][CacheNext]_vars

\* A process that makes check_model_status() and delete_model() calls
FileNext ==
  \/ check_model_status
  \/ delete_model

FileSpec == Init /\ [][FileNext]_vars

\* The scheduler runs a thread that can take a step: the monitor gets to its
\* next statement, and the primary thread, once the fetch has returned or
\* raised, gets to its next one.  The fetch itself may block for ever.
FairInit == Init /\ model_name \in {"tiny", "large"}

FairSpec ==
  /\ FairInit
  /\ [][Next]_vars
  /\ WF_vars(MonitorTest)
  /\ WF_vars(MonitorBody)
  /\ WF_vars(MonitorSleep)
  /\ WF_vars(SetStop)
  /\ WF_vars(ExceptKeyboardInterrupt)
  /\ WF_vars(ExceptException)

\* ------------------------------------------------------------------ claims

\* C1, as claimed: no "progress" line is printed after the invocation's
\* "complete" line, under every interleaving of the two threads.
C1_NoProgressAfterComplete ==
  stderr.type = "progress" => completes = 0

C3_MonitorEnds ==
  (Alive /\ fetch \in {"returned", "raised"}) ~> ~Alive

C3_Witness ==
  /\ mon.pc = "cancelled"
  /\ fetch = "raised"
  /\ raised.kind = "KeyboardInterrupt"

\* C4, as claimed: whenever the owner sets the signal, the monitor prints no
\* progress line from that moment on.
C4_NoProgressAfterStop ==
  stderr.type = "progress" => ~stop_event

\* C5: the fetch is invoked at most once per invocation, and only once the
\* monitor thread has been started.
C5_MonitorBeforeFetch ==
  /\ fetch_calls <= 1
  /\ fetch_calls > 0 => mon.pc # "unstarted"
  /\ pc = "fetch" => fetch_calls = 1

C5_Witness ==
  /\ pc = "fetch"
  /\ fetch_calls = 1
  /\ Alive

\* C6: a pass of the monitor's body that observes a size of at least 95% of
\* expected_size ends the monitor, whether or not the stop event is set.
C6_LeavesAt95 ==
  (tick.passed /\ 100 * tick.current_size >= 95 * expected_size) =>
    mon.pc = "complete"

C6_Witness ==
  /\ tick.passed
  /\ 100 * tick.current_size >= 95 * expected_size
  /\ tick.current_size < expected_size
  /\ mon.pc = "complete"
  /\ ~stop_event
  /\ pc = "fetch"

\* C7, as claimed: the monitor is not left polling once the size it observes
\* has stayed the same, above 90% and below 95% of expected_size, for more
\* than 10 seconds.
C7_LeavesWhenStalled ==
  Alive => stagnant <= StagnationTicks

\* C8: an invocation whose fetch raised returns a dict with success and
\* downloaded false and an error string: the fixed interrupt message for a
\* KeyboardInterrupt, str(e) for an Exception, and the two differ.
C8_FailureResult ==
  /\ pc = "except" => raised.kind \in {"KeyboardInterrupt", "Exception"}
  /\ (pc = "idle" /\ fetch = "raised") =>
       /\ result.returned
       /\ ~result.success
       /\ ~result.downloaded
       /\ raised.kind = "KeyboardInterrupt" =>
            result.error = "Download interrupted by user"
       /\ raised.kind = "Exception" =>
            /\ result.error = raised.message
            /\ result.error # "Download interrupted by user"

C8_Witness ==
  /\ pc = "idle"
  /\ fetch = "raised"
  /\ raised.kind = "KeyboardInterrupt"
  /\ result.returned
  /\ result.error = "Download interrupted by user"

\* C9: a call made while the artifact is on disk returns at once the
\* short-circuit dict with the artifact's size, starts no monitor, probes no
\* size, invokes no fetch, prints nothing and leaves the artifact as it is, so
\* that the next call finds it on disk too.
C9_ShortCircuit ==
  [][(file_exists /\ calls' = calls + 1) =>
       /\ result' = [returned |-> TRUE, downloaded |-> TRUE, success |-> TRUE,
                     size_bytes |-> file_size, error |-> ""]
       /\ pc' = "idle"
       /\ mon'.pc = "unstarted"
       /\ ~probed'
       /\ fetch_calls' = 0
       /\ stderr' = NoLine
       /\ file_exists'
       /\ file_size' = file_size]_vars

C9_Witness ==
  /\ calls >= 2
  /\ pc = "idle"
  /\ fetch = "none"
  /\ mon.pc = "unstarted"
  /\ result.downloaded
  /\ result.size_bytes = file_size

\* C10: the cache never holds more than 2 entries; a call that evicts finds
\* the cache full and evicts the entry that was loaded earliest among those
\* present; a call that loads nothing leaves the cache, and so the order of
\* its entries, as it was.
C10_CacheBound ==
  /\ [](Len(model_cache) <= 2)
  /\ [][/\ evicted' # "" =>
             /\ Len(model_cache) = 2
             /\ evicted' = model_cache[1].name
             /\ \A k \in 1..Len(model_cache) :
                  model_cache[1].handle <= model_cache[k].handle
             /\ \A k \in 1..Len(model_cache') : model_cache'[k].name # evicted'
             /\ \A k \in 2..Len(model_cache) :
                  \E j \in 1..Len(model_cache') : model_cache'[j] = model_cache[k]
        /\ (Len(model_cache) < 2 /\ loads' = loads + 1) =>
             \A k \in 1..Len(model_cache) : model_cache'[k] = model_cache[k]
        /\ (\E k \in 1..Len(model_cache) :
              load_result'.handle = model_cache[k].handle) =>
             model_cache' = model_cache]_vars

C10_Witness ==
  /\ evicted # ""
  /\ Len(model_cache) = 2
  /\ \A k \in 1..Len(model_cache) : model_cache[k].name # evicted

\* C11: a load_model call in which whisper.load_model raises returns None
\* and leaves the cache as it was: nothing inserted, nothing evicted.
C11_FailureLeavesCache ==
  [][(loads' = loads + 1 /\ load_raised') =>
       /\ load_result'.handle = 0
       /\ model_cache' = model_cache
       /\ evicted' = ""
       /\ \A k \in 1..Len(model_cache') :
            model_cache'[k].name # load_result'.model]_vars

C11_Witness ==
  /\ load_raised
  /\ load_result.handle = 0
  /\ Len(model_cache) = 2
  /\ evicted = ""

\* C12: the percentage of every progress line lies between 0 and 100,
\* whatever the sizes read and the expected size, sizes beyond the expected
\* size included.
C12_PercentageInRange ==
  stderr.type = "progress" =>
    stderr.percentage >= 0 /\ stderr.percentage <= 1000

C12_Witness ==
  /\ stderr.type = "progress"
  /\ stderr.total_bytes > 0
  /\ stderr.downloaded_bytes > stderr.total_bytes
  /\ stderr.percentage = 1000

\* C13: the monitor's speed and the speed of every progress line are never
\* negative, and both are 0 in every pass made before the first pass that saw
\* the size grow.
C13_SpeedNotNegative ==
  /\ tick.passed => tick.speed_mbps.num >= 0 /\ tick.speed_mbps.den > 0
  /\ stderr.type = "progress" => stderr.speed_mbps >= 0
  /\ (tick.passed /\ ~tick.grown) => tick.speed_mbps.num = 0
  /\ (stderr.type = "progress" /\ ~tick.grown) => stderr.speed_mbps = 0

C13_Witness ==
  /\ stderr.type = "progress"
  /\ stderr.speed_mbps > 0
  /\ tick.grown
  /\ tick.appended

\* C16: a pass of the body leaves the loop only when the size it read is at
\* least 95% of the expected size, or when that size is above 90% and has been
\* seen unchanged for more than 10 s; a pass that reads a size at or below 90%
\* goes on to the sleep.
C16_LeavesOnlyWhenDone ==
  /\ (tick.passed /\ tick.left) =>
       \/ 100 * tick.current_size >= 95 * expected_size
       \/ /\ 10 * tick.current_size > 9 * expected_size
          /\ tick.stagnant > StagnationTicks
  /\ (tick.passed /\ mon.pc \in {"complete", "stalled_done"}) => tick.left
  /\ (/\ tick.passed
      /\ 10 * tick.current_size <= 9 * expected_size
      /\ 100 * tick.current_size < 95 * expected_size) =>
       mon.pc = "sleep"

C16_Witness ==
  /\ tick.passed
  /\ tick.left
  /\ mon.pc = "stalled_done"
  /\ ~stop_event
  /\ 100 * tick.current_size < 95 * expected_size
  /\ tick.stagnant > StagnationTicks

\* C18: a pass of a monitor that has printed a line before prints one only if
\* at least 0.5 s have passed since that line or the percentage is more than
\* one point away from the one printed then.
C18_EmitsWhenDue ==
  (stderr.type = "progress" /\ tick.emitted) => tick.waited \/ tick.moved

C18_Witness ==
  /\ stderr.type = "progress"
  /\ tick.emitted
  /\ tick.waited
  /\ ~tick.moved

\* C19: the window holds at most 10 samples, every pass that reads a size
\* larger than the last one appends a sample, and the speed of every progress
\* line is the mean of the window whenever the window is not empty.
C19_SpeedIsWindowMean ==
  tick.passed =>
    /\ Len(tick.speed_samples) <= 10
    /\ tick.increased => tick.appended
    /\ (stderr.type = "progress" /\ tick.speed_samples # <<>>) =>
         stderr.speed_mbps = Round2(Mean(tick.speed_samples))

\* C14: the expected size download_model gets from get_expected_model_size
\* is a strictly positive integer, whatever the probe does.
C14_PositiveSize ==
  probed => expected_size > 0

\* C17: when download_model has returned after its fetch returned or raised,
\* the stop event is set and the bounded join is behind it.
C17_StopAndJoin ==
  (result.returned /\ fetch \in {"returned", "raised"}) =>
    stop_event /\ joined

\* C20: a download_model call made when the call before it has returned a
\* failure and has left an artifact on disk calls no fetch, starts no monitor
\* and returns downloaded and success true with the size of that artifact.
C20_ShortCircuitAfterFailure ==
  [][(/\ pc = "idle"
      /\ result.returned
      /\ ~result.success
      /\ file_exists
      /\ calls' = calls + 1) =>
       /\ result' = [returned |-> TRUE, downloaded |-> TRUE, success |-> TRUE,
                     size_bytes |-> file_size, error |-> ""]
       /\ pc' = "idle"
       /\ fetch' = "none"
       /\ fetch_calls' = 0
       /\ mon'.pc = "unstarted"
       /\ UNCHANGED filevars]_vars

C20_Witness ==
  /\ after_failure
  /\ calls = 2
  /\ pc = "idle"
  /\ result.downloaded
  /\ result.success
  /\ file_exists
  /\ result.size_bytes = file_size
  /\ file_size > 0
  /\ 100 * file_size < 95 * approximate_sizes[model_name]
  /\ fetch_calls = 0
  /\ mon.pc = "unstarted"

====
